---- MODULE Spec2Model ----
(***************************************************************************)
(* Model of generate_pngs.py: the PNG export sweep over the logo registry. *)
(*                                                                         *)
(* The script is a straight-line program: a setup loop that creates the    *)
(* <size>px directories, then a loop over svg_files and, inside it, over   *)
(* every size of every category, trying inkscape and then magick.          *)
(*                                                                         *)
(* The two rasterizers are external processes.  What the script observes   *)
(* of one invocation is one of three outcomes of subprocess.run:           *)
(*   "zero"     the process ran and exited with status 0,                  *)
(*   "nonzero"  the process ran and exited with another status,            *)
(*   "nolaunch" subprocess.run raised (the executable is not installed).   *)
(* A tool that exits with status 0 has written the file named by the       *)
(* output path it was given; a tool that did not exit with status 0 has    *)
(* written nothing.  A tool is a function of its arguments: invoked again  *)
(* with the same source and size it succeeds again, or fails again.        *)
(***************************************************************************)
EXTENDS Integers, Sequences, FiniteSets, TLC

VARIABLES
    run,        \* number of the current invocation of the script
    pc,         \* position of the script
    setup_i,    \* position of the setup loop in the flattened size list
    src_i,      \* position of the outer loop in svg_files
    size_i,     \* position of the inner loops in the flattened size list
    dirs,       \* directories that exist
    svgs,       \* source files that exist
    files,      \* PNG files that exist
    written,    \* PNG files written by the current run
    stdout,     \* lines printed by the current run
    calls,      \* subprocess.run invocations of the current run, in order
    rc,         \* how the current iteration's inkscape attempt failed
    inkscape,   \* what inkscape is known to do for a (source, size)
    magick,     \* what magick is known to do for a (source, size)
    ended       \* what each completed run left behind

vars == <<run, pc, setup_i, src_i, size_i, dirs, svgs, files, written,
          stdout, calls, rc, inkscape, magick, ended>>

----------------------------------------------------------------------------
(* Bounds of the model *)

\* the sweep covers the first MaxSources entries of svg_files
MaxSources == 2
\* and the first MaxWidths sizes of the flattened size catalog
MaxWidths == 2
\* the script is invoked at most MaxRuns times in sequence
MaxRuns == 2

----------------------------------------------------------------------------
(* Configuration tables *)

svg_files ==
    << [svg_file |-> "synced-sports-primary.svg",    base_name |-> "primary"],
       [svg_file |-> "synced-sports-horizontal.svg", base_name |-> "horizontal"],
       [svg_file |-> "synced-sports-icon.svg",       base_name |-> "icon"],
       [svg_file |-> "synced-sports-waves-only.svg", base_name |-> "waves"],
       [svg_file |-> "synced-sports-black.svg",      base_name |-> "black"],
       [svg_file |-> "synced-sports-white.svg",      base_name |-> "white"],
       [svg_file |-> "synced-sports-wordmark.svg",   base_name |-> "wordmark"] >>

sizes ==
    << [category |-> "small",  sizes |-> <<32, 64>>],
       [category |-> "medium", sizes |-> <<128, 256>>],
       [category |-> "large",  sizes |-> <<512, 1024>>] >>

\* a path is the sequence of its components
svg_dir == <<"SyncedSports-BrandPack", "Logos", "SVG">>
png_dir == <<"SyncedSports-BrandPack", "Logos", "PNG">>

----------------------------------------------------------------------------
(* pathlib *)

\* path / name
Div(path, name) == Append(path, name)

\* path.name
Name(path) == path[Len(path)]

\* path.parents
Parents(path) == { SubSeq(path, 1, k) : k \in 1..(Len(path) - 1) }

Min(a, b) == IF a < b THEN a ELSE b

----------------------------------------------------------------------------
(* The two loops' iteration spaces *)

RECURSIVE Flatten(_)
\* "for category in sizes: for size in sizes[category]" visits the sizes
\* category by category, each category's list in order
Flatten(cats) ==
    IF cats = <<>> THEN <<>>
    ELSE Head(cats).sizes \o Flatten(Tail(cats))

Widths == SubSeq(Flatten(sizes), 1, Min(MaxWidths, Len(Flatten(sizes))))

Registry == SubSeq(svg_files, 1, Min(MaxSources, Len(svg_files)))

SvgNames == { Registry[i].svg_file : i \in 1..Len(Registry) }
WidthSet == { Widths[j] : j \in 1..Len(Widths) }

----------------------------------------------------------------------------
(* Derived values of one iteration *)

\* f'{size}px'
size_dir_name(size) == ToString(size) \o "px"

\* png_dir / f'{size}px'
size_dir(size) == Div(png_dir, size_dir_name(size))

\* svg_dir / svg_file
svg_path(svg_file) == Div(svg_dir, svg_file)

output_path_flat(base_name, size) ==
    Div(png_dir,
        "synced-sports-" \o base_name \o "-" \o ToString(size) \o ".png")

output_path_keep(base_name, size) ==
    LET p == Div(size_dir(size),
                 "synced-sports-" \o base_name \o "-" \o ToString(size) \o ".png")
    IN  IF p \in files
        THEN Div(size_dir(size),
                 "synced-sports-" \o base_name \o "-" \o ToString(size) \o "-1.png")
        ELSE p

\* png_dir / f'{size}px' / f'synced-sports-{base_name}-{size}.png'
output_path(base_name, size) ==
    Div(Div(png_dir, size_dir_name(size)),
        "synced-sports-" \o base_name \o "-" \o ToString(size) \o ".png")

\* the status lines
SkippingLine(svg_file) == "Skipping " \o svg_file \o " - file not found"
CreatedLine(out) == "Created " \o Name(out)
CreatedMagickLine(out) == "Created " \o Name(out) \o " (with ImageMagick)"
CouldNotLine(svg_file, size) ==
    "Could not convert " \o svg_file \o " to " \o ToString(size)
        \o "px PNG - tools not available"
GeneratingLine == "Generating PNG exports..."
SummaryLine ==
    "\nPNG generation attempted. Some files may need manual conversion if tools are not installed."

----------------------------------------------------------------------------
(* The environment *)

Outcomes == {"zero", "nonzero", "nolaunch"}

\* the outcomes a tool can have for a (source, size), given what it is
\* known to do
ToolOutcomes(known) ==
    CASE known = "unknown" -> Outcomes
      [] known = "zero"    -> {"zero"}
      [] known = "fail"    -> {"nonzero", "nolaunch"}

Learn(tool, svg_file, size, r) ==
    [tool EXCEPT ![<<svg_file, size>>] = IF r = "zero" THEN "zero" ELSE "fail"]

mkdir_raises_exclusive(path) ==
    IF path \in dirs THEN {TRUE} ELSE BOOLEAN

\* size_dir.mkdir(parents=True, exist_ok=True): whether it raises.  An
\* existing directory is accepted; creating one can fail (permissions,
\* invalid path).
mkdir_raises(path) ==
    IF path \in dirs THEN {FALSE} ELSE BOOLEAN

----------------------------------------------------------------------------
(* Initial state: the first invocation, on an empty output tree *)

Init ==
    /\ run = 1
    /\ pc = "setup"
    /\ setup_i = 1
    /\ src_i = 1
    /\ size_i = 1
    /\ dirs = {}
    /\ svgs \in SUBSET { svg_path(f) : f \in SvgNames }
    /\ files = {}
    /\ written = {}
    /\ stdout = <<>>
    /\ calls = <<>>
    /\ rc = "none"
    /\ inkscape = [k \in SvgNames \X WidthSet |-> "unknown"]
    /\ magick = [k \in SvgNames \X WidthSet |-> "unknown"]
    /\ ended = <<>>

----------------------------------------------------------------------------
(* The script, step by step *)

\* the current iteration's loop variables
CurEntry == Registry[src_i]
CurSize == Widths[size_i]

\* one subprocess.run invocation, as recorded in calls
Call(tool, svg_file, size, out, r) ==
    [tool |-> tool, svg_file |-> svg_file, size |-> size, out |-> out,
     ok |-> (r = "zero")]

\* the end of one iteration of the size loops: the next size of the same
\* source, or back to the loop over svg_files
NextPair ==
    /\ rc' = "none"
    /\ IF size_i < Len(Widths)
       THEN /\ size_i' = size_i + 1
            /\ pc' = "inkscape"
            /\ src_i' = src_i
       ELSE /\ size_i' = 1
            /\ pc' = "sources"
            /\ src_i' = src_i + 1

\* one iteration of the setup loop: create png_dir / '<size>px'
Mkdir ==
    /\ pc = "setup"
    /\ setup_i <= Len(Widths)
    /\ \E raised \in mkdir_raises(size_dir(Widths[setup_i])) :
         IF raised
         THEN /\ pc' = "crashed"
              /\ UNCHANGED <<setup_i, dirs>>
         ELSE /\ pc' = pc
              /\ setup_i' = setup_i + 1
              /\ dirs' = dirs \cup {size_dir(Widths[setup_i])}
                              \cup Parents(size_dir(Widths[setup_i]))
    /\ UNCHANGED <<run, src_i, size_i, svgs, files, written, stdout, calls,
                   rc, inkscape, magick, ended>>

\* print("Generating PNG exports...") after the setup loop
PrintGenerating ==
    /\ pc = "setup"
    /\ setup_i > Len(Widths)
    /\ stdout' = Append(stdout, GeneratingLine)
    /\ pc' = "sources"
    /\ UNCHANGED <<run, setup_i, src_i, size_i, dirs, svgs, files, written,
                   calls, rc, inkscape, magick, ended>>

SkipSourcePerSize ==
    /\ pc = "sources"
    /\ src_i <= Len(Registry)
    /\ svg_path(CurEntry.svg_file) \notin svgs
    /\ stdout' = stdout \o [j \in 1..Len(Widths) |-> SkippingLine(CurEntry.svg_file)]
    /\ src_i' = src_i + 1
    /\ UNCHANGED <<run, pc, setup_i, size_i, dirs, svgs, files, written,
                   calls, rc, inkscape, magick, ended>>

\* the source does not exist: print the notice and continue with the next
\* entry of svg_files
SkipSource ==
    /\ pc = "sources"
    /\ src_i <= Len(Registry)
    /\ svg_path(CurEntry.svg_file) \notin svgs
    /\ stdout' = Append(stdout, SkippingLine(CurEntry.svg_file))
    /\ src_i' = src_i + 1
    /\ UNCHANGED <<run, pc, setup_i, size_i, dirs, svgs, files, written,
                   calls, rc, inkscape, magick, ended>>

EnterSourceUnchecked ==
    /\ pc = "sources"
    /\ src_i <= Len(Registry)
    /\ size_i' = 1
    /\ pc' = "inkscape"
    /\ UNCHANGED <<run, setup_i, src_i, dirs, svgs, files, written, stdout,
                   calls, rc, inkscape, magick, ended>>

\* the source exists: enter the size loops
EnterSource ==
    /\ pc = "sources"
    /\ src_i <= Len(Registry)
    /\ svg_path(CurEntry.svg_file) \in svgs
    /\ size_i' = 1
    /\ pc' = "inkscape"
    /\ UNCHANGED <<run, setup_i, src_i, dirs, svgs, files, written, stdout,
                   calls, rc, inkscape, magick, ended>>

TryInkscapeNoCheck ==
    /\ pc = "inkscape"
    /\ LET svg_file == CurEntry.svg_file
           out == output_path(CurEntry.base_name, CurSize)
       IN  \E r \in ToolOutcomes(inkscape[<<svg_file, CurSize>>]) :
             /\ calls' = Append(calls, Call("inkscape", svg_file, CurSize, out, r))
             /\ inkscape' = Learn(inkscape, svg_file, CurSize, r)
             /\ IF r \in {"zero", "nonzero"}
                THEN /\ files' = IF r = "zero" THEN files \cup {out} ELSE files
                     /\ written' = IF r = "zero" THEN written \cup {out} ELSE written
                     /\ stdout' = Append(stdout, CreatedLine(out))
                     /\ NextPair
                ELSE /\ pc' = "magick"
                     /\ rc' = r
                     /\ UNCHANGED <<src_i, size_i, files, written, stdout>>
    /\ UNCHANGED <<run, setup_i, dirs, svgs, magick, ended>>

\* the first try block: run inkscape; exit status 0 prints "Created ...",
\* anything else (the raised Exception, or subprocess.run raising) lands in
\* the bare except
TryInkscape ==
    /\ pc = "inkscape"
    /\ LET svg_file == CurEntry.svg_file
           out == output_path(CurEntry.base_name, CurSize)
       IN  \E r \in ToolOutcomes(inkscape[<<svg_file, CurSize>>]) :
             /\ calls' = Append(calls, Call("inkscape", svg_file, CurSize, out, r))
             /\ inkscape' = Learn(inkscape, svg_file, CurSize, r)
             /\ IF r = "zero"
                THEN /\ files' = files \cup {out}
                     /\ written' = written \cup {out}
                     /\ stdout' = Append(stdout, CreatedLine(out))
                     /\ NextPair
                ELSE /\ pc' = "magick"
                     /\ rc' = r
                     /\ UNCHANGED <<src_i, size_i, files, written, stdout>>
    /\ UNCHANGED <<run, setup_i, dirs, svgs, magick, ended>>

TryMagickUncaught ==
    /\ pc = "magick"
    /\ LET svg_file == CurEntry.svg_file
           out == output_path(CurEntry.base_name, CurSize)
       IN  \E r \in ToolOutcomes(magick[<<svg_file, CurSize>>]) :
             /\ calls' = Append(calls, Call("magick", svg_file, CurSize, out, r))
             /\ magick' = Learn(magick, svg_file, CurSize, r)
             /\ IF r = "zero"
                THEN /\ files' = files \cup {out}
                     /\ written' = written \cup {out}
                     /\ stdout' = Append(stdout, CreatedMagickLine(out))
                     /\ NextPair
                ELSE /\ pc' = "crashed"
                     /\ rc' = rc
                     /\ UNCHANGED <<src_i, size_i, files, written, stdout>>
    /\ UNCHANGED <<run, setup_i, dirs, svgs, inkscape, ended>>

TryMagickSilent ==
    /\ pc = "magick"
    /\ LET svg_file == CurEntry.svg_file
           out == output_path(CurEntry.base_name, CurSize)
       IN  \E r \in ToolOutcomes(magick[<<svg_file, CurSize>>]) :
             /\ calls' = Append(calls, Call("magick", svg_file, CurSize, out, r))
             /\ magick' = Learn(magick, svg_file, CurSize, r)
             /\ IF r = "zero"
                THEN /\ files' = files \cup {out}
                     /\ written' = written \cup {out}
                     /\ stdout' = Append(stdout, CreatedMagickLine(out))
                ELSE /\ UNCHANGED <<files, written, stdout>>
             /\ NextPair
    /\ UNCHANGED <<run, setup_i, dirs, svgs, inkscape, ended>>

TryMagickPlaceholder ==
    /\ pc = "magick"
    /\ LET svg_file == CurEntry.svg_file
           out == output_path(CurEntry.base_name, CurSize)
       IN  \E r \in ToolOutcomes(magick[<<svg_file, CurSize>>]) :
             /\ calls' = Append(calls, Call("magick", svg_file, CurSize, out, r))
             /\ magick' = Learn(magick, svg_file, CurSize, r)
             /\ files' = files \cup {out}
             /\ written' = written \cup {out}
             /\ stdout' = Append(stdout,
                                 IF r = "zero" THEN CreatedMagickLine(out)
                                 ELSE CouldNotLine(svg_file, CurSize))
             /\ NextPair
    /\ UNCHANGED <<run, setup_i, dirs, svgs, inkscape, ended>>

\* the except branch: run magick with check=True; exit status 0 prints
\* "Created ... (with ImageMagick)", anything else lands in the inner bare
\* except, which prints "Could not convert ..."
TryMagick ==
    /\ pc = "magick"
    /\ LET svg_file == CurEntry.svg_file
           out == output_path(CurEntry.base_name, CurSize)
       IN  \E r \in ToolOutcomes(magick[<<svg_file, CurSize>>]) :
             /\ calls' = Append(calls, Call("magick", svg_file, CurSize, out, r))
             /\ magick' = Learn(magick, svg_file, CurSize, r)
             /\ IF r = "zero"
                THEN /\ files' = files \cup {out}
                     /\ written' = written \cup {out}
                     /\ stdout' = Append(stdout, CreatedMagickLine(out))
                ELSE /\ stdout' = Append(stdout, CouldNotLine(svg_file, CurSize))
                     /\ UNCHANGED <<files, written>>
             /\ NextPair
    /\ UNCHANGED <<run, setup_i, dirs, svgs, inkscape, ended>>

\* the loop over svg_files is exhausted: print the closing line
PrintSummary ==
    /\ pc = "sources"
    /\ src_i > Len(Registry)
    /\ stdout' = Append(stdout, SummaryLine)
    /\ pc' = "done"
    /\ ended' = Append(ended, [files |-> files, dirs |-> dirs,
                               targets |-> { calls[k].out : k \in 1..Len(calls) }])
    /\ UNCHANGED <<run, setup_i, src_i, size_i, dirs, svgs, files, written,
                   calls, rc, inkscape, magick>>

\* the script is run again after a completed run, on the tree that run left
StartRun ==
    /\ pc = "done"
    /\ run < MaxRuns
    /\ run' = run + 1
    /\ pc' = "setup"
    /\ setup_i' = 1
    /\ src_i' = 1
    /\ size_i' = 1
    /\ written' = {}
    /\ stdout' = <<>>
    /\ calls' = <<>>
    /\ rc' = "none"
    /\ UNCHANGED <<dirs, svgs, files, inkscape, magick, ended>>

\* one run of the script
Step ==
    \/ Mkdir
    \/ PrintGenerating
    \/ SkipSource
    \/ EnterSource
    \/ TryInkscape
    \/ TryMagick
    \/ PrintSummary

Next ==
    \/ Step
    \/ StartRun

\* one run of the script; the interpreter keeps executing it
Spec == Init /\ [][Step]_vars /\ WF_vars(Step)

\* the script run up to MaxRuns times in sequence, each run on the tree the
\* run before it left
RerunSpec == Init /\ [][Next]_vars

----------------------------------------------------------------------------
(* Vocabulary of the properties *)

Pairs == (1..Len(Registry)) \X (1..Len(Widths))

\* the source of registry entry i is present in the source directory
SourcePresent(i) ==
    <<"SyncedSports-BrandPack", "Logos", "SVG", Registry[i].svg_file>> \in svgs

\* <png_root>/<width>px
ExpectedDir(j) ==
    <<"SyncedSports-BrandPack", "Logos", "PNG", ToString(Widths[j]) \o "px">>

\* <png_root>/<width>px/synced-sports-<token>-<width>.png
ExpectedPath(i, j) ==
    <<"SyncedSports-BrandPack", "Logos", "PNG", ToString(Widths[j]) \o "px",
      "synced-sports-" \o Registry[i].base_name \o "-" \o ToString(Widths[j])
          \o ".png">>

\* the invocations of a tool for pair (i, j), as positions in calls
CallsFor(tool, i, j) ==
    { k \in 1..Len(calls) :
        /\ calls[k].tool = tool
        /\ calls[k].svg_file = Registry[i].svg_file
        /\ calls[k].size = Widths[j] }

\* the position of a call's pair in registry-then-width order
PairIndex(k) ==
    LET i == CHOOSE x \in 1..Len(Registry) : Registry[x].svg_file = calls[k].svg_file
        j == CHOOSE y \in 1..Len(Widths) : Widths[y] = calls[k].size
    IN  (i - 1) * Len(Widths) + j

Count(line) == Cardinality({ n \in 1..Len(stdout) : stdout[n] = line })

\* the three status lines of pair (i, j)
ViaPrimary(i, j) == "Created " \o ExpectedPath(i, j)[5]
ViaSecondary(i, j) == "Created " \o ExpectedPath(i, j)[5] \o " (with ImageMagick)"
Failed(i, j) ==
    "Could not convert " \o Registry[i].svg_file \o " to "
        \o ToString(Widths[j]) \o "px PNG - tools not available"
NotFound(i) == "Skipping " \o Registry[i].svg_file \o " - file not found"

StatusLines == UNION { {ViaPrimary(q[1], q[2]), ViaSecondary(q[1], q[2]),
                        Failed(q[1], q[2])} : q \in Pairs }

NumStatusLines == Cardinality({ n \in 1..Len(stdout) : stdout[n] \in StatusLines })
NumPrimaryCalls == Cardinality({ k \in 1..Len(calls) : calls[k].tool = "inkscape" })

SummaryPrinted ==
    /\ stdout # <<>>
    /\ stdout[Len(stdout)] =
         "\nPNG generation attempted. Some files may need manual conversion if tools are not installed."

----------------------------------------------------------------------------
(* C1: whenever, for a pair whose source exists, the primary or the        *)
(* secondary rasterizer has exited with status zero, the output file       *)
(* exists at exactly <png_root>/<width>px/synced-sports-<token>-<width>.png *)
(* and stays there to the end of the run.                                  *)
C1_OutputAtExactPath ==
    \A q \in Pairs :
        ( /\ SourcePresent(q[1])
          /\ \E tool \in {"inkscape", "magick"} :
                \E k \in CallsFor(tool, q[1], q[2]) : calls[k].ok )
        => /\ ExpectedPath(q[1], q[2]) \in files
           /\ ExpectedPath(q[1], q[2]) \in written

C1_Witness ==
    /\ pc = "done"
    /\ \E k \in 1..Len(calls) : calls[k].tool = "inkscape" /\ calls[k].ok
    /\ \E k \in 1..Len(calls) : calls[k].tool = "magick" /\ calls[k].ok
    /\ Cardinality(files) >= 2

(* C2: once the setup phase has succeeded, the run reaches its closing     *)
(* summary line with every pair of every present source attempted and      *)
(* every absent source reported, whatever the tools' outcomes were.        *)
C2_SweepCompletes ==
    (pc \in {"sources", "inkscape", "magick"})
    ~> ( /\ pc = "done"
         /\ SummaryPrinted
         /\ \A q \in Pairs :
               SourcePresent(q[1]) => CallsFor("inkscape", q[1], q[2]) # {}
         /\ \A i \in 1..Len(Registry) :
               ~SourcePresent(i) => Count(NotFound(i)) >= 1 )

C2_Witness ==
    /\ pc = "done"
    /\ SummaryPrinted
    /\ \E k \in 1..Len(calls) :
          /\ calls[k].tool = "magick"
          /\ ~calls[k].ok
          /\ k < Len(calls)
    /\ \E i \in 1..Len(Registry) : ~SourcePresent(i)

(* C3: the secondary rasterizer is invoked for a pair if and only if the   *)
(* primary attempt for that pair failed, by a non-zero exit status or by a *)
(* failure to launch; a pair whose secondary attempt exits with status     *)
(* zero is reported as created via the secondary tool.                     *)
C3_SecondaryIffPrimaryFailed ==
    /\ \A q \in Pairs :
          /\ CallsFor("magick", q[1], q[2]) # {}
                => \E k \in CallsFor("inkscape", q[1], q[2]) : ~calls[k].ok
          /\ (\E k \in CallsFor("inkscape", q[1], q[2]) : ~calls[k].ok)
                => \/ CallsFor("magick", q[1], q[2]) # {}
                   \/ pc = "magick" /\ src_i = q[1] /\ size_i = q[2]
          /\ (\E k \in CallsFor("magick", q[1], q[2]) : calls[k].ok)
                => /\ Count(ViaSecondary(q[1], q[2])) = 1
                   /\ Count(Failed(q[1], q[2])) = 0
    /\ rc \in {"nonzero", "nolaunch"} <=> pc = "magick"
    /\ pc = "magick" =>
          /\ calls[Len(calls)].tool = "inkscape"
          /\ calls[Len(calls)].svg_file = Registry[src_i].svg_file
          /\ calls[Len(calls)].size = Widths[size_i]
          /\ ~calls[Len(calls)].ok

C3_Witness ==
    /\ pc = "magick"
    /\ rc = "nolaunch"
    /\ \E q \in Pairs :
          /\ \E k \in CallsFor("inkscape", q[1], q[2]) : ~calls[k].ok
          /\ \E k \in CallsFor("magick", q[1], q[2]) : calls[k].ok
          /\ Count(ViaSecondary(q[1], q[2])) = 1

C5_MissingSourceUntouched ==
    \A i \in 1..Len(Registry) :
        ~SourcePresent(i) =>
            /\ \A k \in 1..Len(calls) : calls[k].svg_file # Registry[i].svg_file
            /\ \A j \in 1..Len(Widths) : ExpectedPath(i, j) \notin files
            /\ (pc \in {"sources", "inkscape", "magick", "done"} /\ src_i > i)
                  => Count(NotFound(i)) >= 1
            /\ pc = "done" =>
                  \A i2 \in (i + 1)..Len(Registry) :
                      SourcePresent(i2) =>
                          \A j \in 1..Len(Widths) :
                              CallsFor("inkscape", i2, j) # {}

C5_Witness ==
    /\ pc = "done"
    /\ ~SourcePresent(1)
    /\ SourcePresent(2)
    /\ Len(calls) >= Len(Widths)

(* C6, as stated: a completed run has printed one "not found" notice per   *)
(* width for every missing source.                                         *)
C6_NoticePerWidth ==
    pc = "done" =>
        \A i \in 1..Len(Registry) :
            ~SourcePresent(i) => Count(NotFound(i)) = Len(Widths)

(* C6, amended: the source-existence check is performed once per source,   *)
(* before the width loop, so a missing source produces exactly one "not    *)
(* found" notice, whatever the number of widths.                           *)
C6_NoticePerSource ==
    \A i \in 1..Len(Registry) :
        ~SourcePresent(i) =>
            Count(NotFound(i)) =
               IF pc \in {"sources", "inkscape", "magick", "done"} /\ src_i > i
               THEN 1 ELSE 0

C6_Witness ==
    /\ pc = "done"
    /\ \A i \in 1..Len(Registry) : ~SourcePresent(i)
    /\ Len(stdout) = Len(Registry) + 2
    /\ Len(Widths) > 1

(* C7: from the end of the setup phase on, so before the first invocation  *)
(* of any rasterizer and up to the end of the run, every <width>px         *)
(* directory of the size catalog exists, whatever the conversions do; and  *)
(* the setup phase never fails on a directory that already exists.         *)
C7_DirectoriesPrecreated ==
    /\ (calls # <<>> \/ pc \in {"sources", "inkscape", "magick", "done"})
          => \A j \in 1..Len(Widths) : ExpectedDir(j) \in dirs
    /\ pc = "crashed" => ExpectedDir(setup_i) \notin dirs
    /\ run > 1 => \A j \in 1..Len(Widths) : ExpectedDir(j) \in dirs

C7_Witness ==
    /\ run = 2
    /\ pc = "done"
    /\ calls # <<>>
    /\ written = {}
    /\ \A j \in 1..Len(Widths) : ExpectedDir(j) \in dirs

(* C8: a run that has crashed did so in the setup phase: it has invoked no *)
(* rasterizer, written no output file, printed nothing (in particular not  *)
(* the closing summary line), and takes no further step.                   *)
C8_SetupFailureHalts ==
    pc = "crashed" =>
        /\ setup_i \in 1..Len(Widths)
        /\ calls = <<>>
        /\ written = {}
        /\ stdout = <<>>
        /\ ~ENABLED Step

C8_Witness ==
    /\ pc = "crashed"
    /\ setup_i = 2
    /\ ExpectedDir(1) \in dirs

(* C9: every completed run after the first leaves the same output files    *)
(* and directories as the first completed run, and has targeted the same   *)
(* output paths.                                                           *)
C9_SecondRunSamePaths ==
    \A r \in 2..Len(ended) :
        /\ ended[r].files = ended[1].files
        /\ ended[r].dirs = ended[1].dirs
        /\ ended[r].targets = ended[1].targets

C9_Witness ==
    /\ Len(ended) = 2
    /\ Cardinality(ended[2].files) >= 2
    /\ Cardinality(ended[2].targets) > Cardinality(ended[2].files)
    /\ written = ended[1].files

(* C10: the invocations follow registry-then-width order, one pair at a    *)
(* time: the primary tool at most once per pair, the secondary at most     *)
(* once and directly after the primary of the same pair; each pair's       *)
(* status line is printed before the next pair's first invocation, and     *)
(* each attempted pair has exactly one status line.                        *)
C10_SequentialOrder ==
    /\ \A k \in 1..(Len(calls) - 1) :
          \/ PairIndex(k) < PairIndex(k + 1) /\ calls[k + 1].tool = "inkscape"
          \/ /\ PairIndex(k) = PairIndex(k + 1)
             /\ calls[k].tool = "inkscape"
             /\ calls[k + 1].tool = "magick"
    /\ calls # <<>> => calls[1].tool = "inkscape"
    /\ NumStatusLines = NumPrimaryCalls - (IF pc = "magick" THEN 1 ELSE 0)
    /\ \A q \in Pairs :
          Count(ViaPrimary(q[1], q[2])) + Count(ViaSecondary(q[1], q[2]))
             + Count(Failed(q[1], q[2]))
          = IF /\ CallsFor("inkscape", q[1], q[2]) # {}
               /\ ~(pc = "magick" /\ src_i = q[1] /\ size_i = q[2])
            THEN 1 ELSE 0
    /\ pc \in {"inkscape", "magick"} =>
          \A k \in 1..Len(calls) :
              PairIndex(k) <= (src_i - 1) * Len(Widths) + size_i

C10_Witness ==
    /\ pc = "done"
    /\ Len(calls) > Cardinality(Pairs)
    /\ NumPrimaryCalls = Cardinality(Pairs)
    /\ \E q \in Pairs : Count(ViaPrimary(q[1], q[2])) = 1
    /\ \E q \in Pairs : Count(ViaSecondary(q[1], q[2])) = 1
    /\ \E q \in Pairs : Count(Failed(q[1], q[2])) = 1

====
